---- MODULE Spec2Model ----
(***************************************************************************)
(* A model of the two exemplar processors of data_preproc:                 *)
(*   processors/qa_longest_mapping.py   LongestExplanationMappingProcessor *)
(*   processors/image_format_converter.py  ImageFormatConverterProcessor   *)
(*                                                                         *)
(* Python values are tagged records [t |-> <type>, v |-> <payload>].       *)
(* A Python str is a sequence of one-character strings, so that len(),     *)
(* str.strip() and string formatting are computed rather than assumed.     *)
(* A Python dict is a TLA+ function whose domain is its set of keys.       *)
(***************************************************************************)
EXTENDS Integers, Sequences, FiniteSets, TLC

VARIABLES
    mode,          \* which processor / entry point this behaviour exercises
    self,          \* LongestExplanationMappingProcessor: the attributes set by __init__
    example,       \* the dict handed to process_example (Python passes it by reference)
    example0,      \* history: the value of that dict when process_example was called
    fault,         \* the step of the try body at which an unexpected exception is raised
    result,        \* what process_example returned
    caught,        \* whether the except clause of process_example ran
    explanations,  \* the argument of _select_longest_index (selection specification)
    index,         \* what _select_longest_index returned
    pc,            \* "call" before the invocation, "done" after it
    iself,         \* ImageFormatConverterProcessor: the attributes set by __init__
    dataset,       \* apply_to_dataset: the local dataset (its rows and its features)
    dataset0,      \* history: the dataset apply_to_dataset was called with
    field_idx,     \* apply_to_dataset: position of the loop over self.image_fields
    mapped,        \* the rows dataset.map has produced so far
    ipc,           \* apply_to_dataset: where control is
    conv,          \* history: the last per-record conversion (its input, output, outcome)
    map_done,      \* history: the fields whose map ran over every row
    not_converted, \* history: the fields whose map or cast failed and was skipped
    workers,       \* the invocations of process_example in flight, each on its own record
    overlapped     \* history: an invocation took a step while another was under way

qavars == <<self, example, example0, fault, result, caught, explanations, index, pc>>
imgvars == <<iself, dataset, dataset0, field_idx, mapped, ipc, conv, map_done, not_converted>>
wvars == <<workers, overlapped>>
vars == <<mode, qavars, imgvars, wvars>>

(***************************************************************************)
(* Bounds of the model.                                                    *)
(***************************************************************************)
MaxQ == 2          \* longest question sequence drawn
MaxE == 3          \* longest explanation sequence drawn
MaxA == 3          \* longest answer sequence drawn
MaxSel == 3        \* longest sequence handed to _select_longest_index on its own
MaxFaultLen == 1   \* longest qa sequence drawn when failures are injected
MaxNameLen == 1    \* longest qa sequence drawn when the field names vary
MaxRows == 2       \* most rows of a dataset handed to apply_to_dataset
NWorkers == 2      \* invocations of process_example in flight at once

(***************************************************************************)
(* Python values.                                                          *)
(***************************************************************************)
None == [t |-> "none", v |-> <<>>]
PyStr(chars) == [t |-> "str", v |-> chars]
PyInt(n) == [t |-> "int", v |-> n]
PyList(seq) == [t |-> "list", v |-> seq]
PyDict(map) == [t |-> "dict", v |-> map]

EmptyDict == [k \in {} |-> None]

\* dict.get(key): the value, or None when the key is absent
Get(d, key) == IF key \in DOMAIN d THEN d[key] ELSE None

\* dict.pop(key, None) as used on the result: the dict without the key
Pop(d, key) == [k \in (DOMAIN d) \ {key} |-> d[k]]

\* d[key] = value
Put(d, key, value) == [k \in (DOMAIN d) \cup {key} |-> IF k = key THEN value ELSE d[k]]

DigitChar == <<"0", "1", "2", "3", "4", "5", "6", "7", "8", "9">>

RECURSIVE Digits(_)
Digits(n) == IF n < 10 THEN <<DigitChar[n + 1]>>
             ELSE Digits(n \div 10) \o <<DigitChar[(n % 10) + 1]>>

\* str(value) for the values a qa sequence holds
Str(x) == CASE x.t = "str" -> x.v
            [] x.t = "int" -> IF x.v < 0 THEN <<"-">> \o Digits(0 - x.v) ELSE Digits(x.v)
            [] x.t = "none" -> <<"N", "o", "n", "e">>

IsSpace(c) == c \in {" ", "\t", "\n"}

RECURSIVE LStrip(_)
LStrip(s) == IF s # <<>> /\ IsSpace(Head(s)) THEN LStrip(Tail(s)) ELSE s

RECURSIVE RStrip(_)
RStrip(s) == IF s # <<>> /\ IsSpace(s[Len(s)]) THEN RStrip(SubSeq(s, 1, Len(s) - 1)) ELSE s

\* str.strip()
Strip(s) == RStrip(LStrip(s))

(***************************************************************************)
(* LongestExplanationMappingProcessor.                                     *)
(***************************************************************************)
NoIndex == -1      \* max_index = None

\* _as_list
as_list(value) == IF value = None THEN <<>>
                  ELSE IF value.t = "list" THEN value.v
                  ELSE <<value>>

\* a slip: the answers are left out of the comparison
have_matching_lengths_two(q, e, a) == Cardinality({Len(q), Len(e)}) = 1

\* _have_matching_lengths
have_matching_lengths(q, e, a) == Cardinality({Len(q), Len(e), Len(a)}) = 1

\* the loop of _select_longest_index from position idx (0-based) on
RECURSIVE select_loop(_, _, _, _)
select_loop(expl, idx, max_length, max_index) ==
    IF idx >= Len(expl) THEN max_index
    ELSE LET item == expl[idx + 1]
         IN IF item = None THEN select_loop(expl, idx + 1, max_length, max_index)
            ELSE IF Len(Str(item)) > max_length
                 THEN select_loop(expl, idx + 1, Len(Str(item)), idx)
                 ELSE select_loop(expl, idx + 1, max_length, max_index)

\* a slip: >= in place of >, so that the last occurrence of the maximum wins
RECURSIVE select_loop_last(_, _, _, _)
select_loop_last(expl, idx, max_length, max_index) ==
    IF idx >= Len(expl) THEN max_index
    ELSE LET item == expl[idx + 1]
         IN IF item = None THEN select_loop_last(expl, idx + 1, max_length, max_index)
            ELSE IF Len(Str(item)) >= max_length
                 THEN select_loop_last(expl, idx + 1, Len(Str(item)), idx)
                 ELSE select_loop_last(expl, idx + 1, max_length, max_index)

select_longest_index_last(expl) == select_loop_last(expl, 0, -1, NoIndex)

\* _select_longest_index
select_longest_index(expl) == select_loop(expl, 0, -1, NoIndex)

\* a slip: one line break in place of two
format_solution_one_break(explanation, answer) ==
    explanation
    \o <<"\n", "T", "h", "e", " ", "a", "n", "s", "w", "e", "r", " ", "i", "s", " ",
         "\\", "b", "o", "x", "e", "d", "{">>
    \o answer
    \o <<"}", ".">>

\* _format_solution
format_solution(explanation, answer) ==
    explanation
    \o <<"\n", "\n", "T", "h", "e", " ", "a", "n", "s", "w", "e", "r", " ", "i", "s", " ",
         "\\", "b", "o", "x", "e", "d", "{">>
    \o answer
    \o <<"}", ".">>

\* _get_source_container
get_source_container(s, ex) ==
    LET qa_pairs == Get(ex, s.qa_pairs_field)
    IN IF qa_pairs.t = "dict" THEN qa_pairs.v ELSE EmptyDict

Drop == [kind |-> "drop", rec |-> EmptyDict]
Keep(rec) == [kind |-> "record", rec |-> rec]

\* a slip: result = example, without the copy
new_result_no_copy(s, ex) ==
    IF s.keep_unmapped THEN [rec |-> ex, alias |-> TRUE]
    ELSE [rec |-> EmptyDict, alias |-> FALSE]

\* result = example.copy() if self.keep_unmapped else {}
\* alias tells whether writes to the result are writes to the caller's dict
new_result(s, ex) ==
    IF s.keep_unmapped THEN [rec |-> ex, alias |-> FALSE]
    ELSE [rec |-> EmptyDict, alias |-> FALSE]

\* a slip: the solution is stored under the problem field's name
build_result_one_key(s, rec, question, explanation, answer) ==
    Put(Put(rec, s.problem_field, PyStr(question)),
        s.problem_field, PyStr(format_solution(explanation, answer)))

\* result[self.problem_field] = question
\* result[self.solution_field] = self._format_solution(explanation, answer)
build_result(s, rec, question, explanation, answer) ==
    Put(Put(rec, s.problem_field, PyStr(question)),
        s.solution_field, PyStr(format_solution(explanation, answer)))

\* the removal of the source fields from the result
remove_source(s, rec) ==
    IF s.remove_source_fields
    THEN IF s.qa_pairs_field # ""
         THEN Pop(rec, s.qa_pairs_field)
         ELSE Pop(Pop(Pop(rec, s.question_field), s.explanation_field), s.answer_field)
    ELSE rec

\* the except clause: the caller's dict as it is now, or None
except_clause(s, ex) == [result |-> IF s.keep_unmapped THEN Keep(ex) ELSE Drop,
                  example |-> ex, caught |-> TRUE]

returned(r, ex) == [result |-> r, example |-> ex, caught |-> FALSE]

\* process_example(example), with an exception raised on entry to step f of the
\* try body ("none": no exception)
process_example(s, ex, f) ==
    IF f = "read" THEN except_clause(s, ex) ELSE
    LET source == get_source_container(s, ex) IN
    IF f = "coerce" THEN except_clause(s, ex) ELSE
    LET questions == as_list(Get(source, s.question_field))
        expl == as_list(Get(source, s.explanation_field))
        answers == as_list(Get(source, s.answer_field))
    IN
    IF f = "validate" THEN except_clause(s, ex) ELSE
    IF questions = <<>> \/ expl = <<>> \/ answers = <<>> THEN returned(Drop, ex) ELSE
    IF ~have_matching_lengths(questions, expl, answers) THEN returned(Drop, ex) ELSE
    IF f = "select" THEN except_clause(s, ex) ELSE
    LET idx == select_longest_index(expl) IN
    IF idx = NoIndex THEN returned(Drop, ex) ELSE
    IF f = "extract" THEN except_clause(s, ex) ELSE
    LET question == Strip(Str(questions[idx + 1]))
        explanation == Strip(Str(expl[idx + 1]))
        answer == Strip(Str(answers[idx + 1]))
    IN
    IF question = <<>> \/ explanation = <<>> \/ answer = <<>> THEN returned(Drop, ex) ELSE
    IF f = "build" THEN except_clause(s, ex) ELSE
    LET fresh == new_result(s, ex)
        built == build_result(s, fresh.rec, question, explanation, answer)
        ex1 == IF fresh.alias THEN built ELSE ex
    IN
    IF f = "remove" /\ s.remove_source_fields THEN except_clause(s, ex1) ELSE
    LET final == remove_source(s, built)
    IN returned(Keep(final), IF fresh.alias THEN final ELSE ex)

(***************************************************************************)
(* Inputs.                                                                 *)
(***************************************************************************)
SeqsUpTo(S, n) == UNION {[1..k -> S] : k \in 0..n}

QItems == {PyStr(<<" ">>), PyStr(<<"q", " ">>)}
EItems == {None, PyStr(<<" ">>), PyStr(<<"a", "b">>)}
AItems == {PyStr(<<>>), PyInt(7)}
SelItems == {None, PyStr(<<>>), PyStr(<<" ">>), PyStr(<<"a">>), PyStr(<<" ", "b">>), PyInt(12)}

\* what a sub-field of the qa container may hold: a list, a scalar, or nothing
\* ("absent" stands for a key that is not in the container)
FieldValues(items, n, scalar) ==
    {PyList(q) : q \in SeqsUpTo(items, n)} \cup {scalar, [t |-> "absent", v |-> <<>>]}

Container(s, q, e, a) ==
    LET present == {k \in {"q", "e", "a"} :
                       (CASE k = "q" -> q [] k = "e" -> e [] k = "a" -> a).t # "absent"}
        name(k) == CASE k = "q" -> s.question_field
                     [] k = "e" -> s.explanation_field
                     [] k = "a" -> s.answer_field
        val(k) == CASE k = "q" -> q [] k = "e" -> e [] k = "a" -> a
    IN [f \in {name(k) : k \in present} |->
           val(CHOOSE k \in present : name(k) = f)]

Containers(s, nq, ne, na) ==
    {Container(s, q, e, a) :
        q \in FieldValues(QItems, nq, PyStr(<<"q">>)),
        e \in FieldValues(EItems, ne, PyStr(<<"a">>)),
        a \in FieldValues(AItems, na, PyInt(7))}

\* the records: an "id" field, perhaps a "problem" field of their own, and the
\* qa-pairs field absent, not a dict, or a container
Bases == {[k \in {"id"} |-> PyInt(1)],
          [k \in {"id", "problem"} |-> IF k = "id" THEN PyInt(1) ELSE PyStr(<<"o">>)]}

QaExamples(s, nq, ne, na) ==
    Bases
    \cup {Put(b, s.qa_pairs_field, PyStr(<<"x">>)) : b \in Bases}
    \cup {Put(b, s.qa_pairs_field, PyDict(c)) : b \in Bases, c \in Containers(s, nq, ne, na)}

\* the attributes __init__ sets from the defaults of config.get
DefaultConfig(keep, remove) ==
    [qa_pairs_field |-> "qa_pairs", question_field |-> "question",
     explanation_field |-> "explanation", answer_field |-> "answer",
     problem_field |-> "problem", solution_field |-> "solution",
     keep_unmapped |-> keep, remove_source_fields |-> remove]

DefaultConfigs == {DefaultConfig(k, r) : k \in BOOLEAN, r \in BOOLEAN}

\* configurations that name the fields differently
NamedConfigs ==
    {[DefaultConfig(k, r) EXCEPT !.qa_pairs_field = qa, !.problem_field = p] :
        k \in BOOLEAN, r \in BOOLEAN, qa \in {"qa_pairs", ""},
        p \in {"problem", "question", "out"}}

FaultPoints == {"read", "coerce", "validate", "select", "extract", "build", "remove"}

(***************************************************************************)
(* ImageFormatConverterProcessor.                                          *)
(*                                                                         *)
(* A decoded image is [t |-> "pil", v |-> <image>]; a byte string is       *)
(* [t |-> "bytes", v |-> <content>]; base64 text is a str.  The codecs the *)
(* processor calls (base64.b64decode, PIL.Image.open, Image.save) are      *)
(* tables over a few contents, each call succeeding with a value or        *)
(* raising.                                                                *)
(***************************************************************************)
Pil(i) == [t |-> "pil", v |-> i]
PyBytes(b) == [t |-> "bytes", v |-> b]

Ok(val) == [ok |-> TRUE, val |-> val]
Raises == [ok |-> FALSE, val |-> None]

\* the base64 text of a byte string, and text that is not base64
B64(b) == PyStr(<<"base64", b>>)
BadB64 == PyStr(<<"base64", "bad padding">>)

\* base64.b64decode(text)
b64decode(text) ==
    IF Len(text.v) = 2 /\ text.v[1] = "base64" /\ text.v[2] \in {"pngA", "pngB", "junk"}
    THEN Ok(PyBytes(text.v[2])) ELSE Raises

\* PILImage.open(BytesIO(data))
pil_open(data) ==
    CASE data.v = "pngA" -> Ok(Pil("A"))
      [] data.v = "pngB" -> Ok(Pil("B"))
      [] OTHER -> Raises

\* PILImage.open(path)
pil_open_path(path) ==
    IF path = PyStr(<<"a.png">>) THEN Ok(Pil("A")) ELSE Raises

\* image_data.save(buffer, format='PNG'); buffer.getvalue()
save_png(image) == PyBytes(CASE image.v = "A" -> "pngA" [] image.v = "B" -> "pngB")

\* the truth value of a dict entry used as a condition
Truthy(x) == ~(x = None \/ x = PyStr(<<>>))

\* the outcome of a per-record conversion: the record (the caller's dict, written in
\* place) and whether an exception leaves the call
\* (at: the field whose conversion raised it)
Converted(ex) == [ex |-> ex, raised |-> FALSE, at |-> ""]

\* a slip: the warning is logged and the exception never raised again
conversion_error_swallowed(s, ex, field) == [ex |-> ex, raised |-> FALSE, at |-> ""]

\* except Exception as e: ... if not self.skip_on_error: raise
conversion_error(s, ex, field) ==
    [ex |-> ex, raised |-> ~s.skip_on_error, at |-> IF s.skip_on_error THEN "" ELSE field]

\* a slip: the inner handler follows skip_on_error like the outer one
string_error_strict(s, ex, field) ==
    [ex |-> ex, raised |-> ~s.skip_on_error, at |-> IF s.skip_on_error THEN "" ELSE field]

\* the inner bare except around the decoding of a top-level string: a warning only
string_error(s, ex, field) == Converted(ex)

\* _convert_to_pil
convert_to_pil(s, ex, field) ==
    IF field \notin DOMAIN ex THEN Converted(ex) ELSE
    LET image_data == ex[field] IN
    IF image_data = None THEN Converted(ex)
    ELSE IF image_data.t = "pil" THEN Converted(ex)
    ELSE IF image_data.t = "dict" THEN
        IF "bytes" \in DOMAIN image_data.v THEN
            LET given == image_data.v["bytes"]
                bytes_data == IF given.t = "str" THEN b64decode(given) ELSE Ok(given)
            IN IF ~bytes_data.ok THEN conversion_error(s, ex, field)
               ELSE IF bytes_data.val.t = "bytes"
                    THEN LET pil_image == pil_open(bytes_data.val)
                         IN IF pil_image.ok THEN Converted(Put(ex, field, pil_image.val))
                            ELSE conversion_error(s, ex, field)
                    ELSE Converted(ex)
        ELSE IF "path" \in DOMAIN image_data.v /\ Truthy(image_data.v["path"]) THEN
            LET pil_image == pil_open_path(image_data.v["path"])
            IN IF pil_image.ok THEN Converted(Put(ex, field, pil_image.val))
               ELSE conversion_error(s, ex, field)
        ELSE Converted(ex)
    ELSE IF image_data.t = "bytes" THEN
        LET pil_image == pil_open(image_data)
        IN IF pil_image.ok THEN Converted(Put(ex, field, pil_image.val))
           ELSE conversion_error(s, ex, field)
    ELSE IF image_data.t = "str" THEN
        LET bytes_data == b64decode(image_data)
            pil_image == IF bytes_data.ok THEN pil_open(bytes_data.val) ELSE Raises
        IN IF pil_image.ok THEN Converted(Put(ex, field, pil_image.val))
           ELSE string_error(s, ex, field)
    ELSE Converted(ex)

\* the body of the loop of _convert_to_bytes for one field
convert_field_to_bytes(s, ex, field) ==
    IF field \notin DOMAIN ex THEN Converted(ex) ELSE
    LET image_data == ex[field] IN
    IF image_data = None THEN Converted(ex)
    ELSE IF image_data.t = "pil" THEN Converted(Put(ex, field, save_png(image_data)))
    ELSE IF image_data.t = "dict" THEN
        IF "bytes" \in DOMAIN image_data.v THEN
            LET bytes_data == image_data.v["bytes"]
            IN IF bytes_data.t = "str"
               THEN LET decoded == b64decode(bytes_data)
                    IN IF decoded.ok THEN Converted(Put(ex, field, decoded.val))
                       ELSE conversion_error(s, ex, field)
               ELSE Converted(Put(ex, field, bytes_data))
        ELSE Converted(ex)
    ELSE IF image_data.t = "bytes" THEN Converted(ex)
    ELSE IF image_data.t = "str" THEN
        LET decoded == b64decode(image_data)
        IN IF decoded.ok THEN Converted(Put(ex, field, decoded.val))
           ELSE string_error(s, ex, field)
    ELSE Converted(ex)

\* the loop of _convert_to_bytes from position i of self.image_fields on
RECURSIVE bytes_loop(_, _, _)
bytes_loop(s, ex, i) ==
    IF i > Len(s.image_fields) THEN Converted(ex)
    ELSE LET one == convert_field_to_bytes(s, ex, s.image_fields[i])
         IN IF one.raised THEN one ELSE bytes_loop(s, one.ex, i + 1)

\* _convert_to_bytes
convert_to_bytes(s, ex) == bytes_loop(s, ex, 1)

\* the loop of process_example over self.image_fields (target hf_image)
RECURSIVE pil_loop(_, _, _)
pil_loop(s, ex, i) ==
    IF i > Len(s.image_fields) THEN Converted(ex)
    ELSE LET one == convert_to_pil(s, ex, s.image_fields[i])
         IN IF one.raised THEN one ELSE pil_loop(s, one.ex, i + 1)

\* ImageFormatConverterProcessor.process_example
image_process_example(s, ex) ==
    IF s.target_format = "hf_image" THEN pil_loop(s, ex, 1) ELSE convert_to_bytes(s, ex)

(***************************************************************************)
(* Inputs of the image processor.                                          *)
(***************************************************************************)
DictOf(bytes_value) == PyDict([k \in {"bytes"} |-> bytes_value])
PathOf(path) == PyDict([k \in {"path"} |-> PyStr(<<path>>)])
BytesAndPath(bytes_value, path) ==
    PyDict([k \in {"bytes", "path"} |-> IF k = "bytes" THEN bytes_value ELSE PyStr(<<path>>)])

ImageValues ==
    {None, Pil("B"),
     DictOf(PyBytes("pngA")), DictOf(PyBytes("junk")),
     DictOf(B64("pngA")), DictOf(B64("junk")), DictOf(BadB64), DictOf(PyInt(5)),
     PathOf("a.png"), PathOf("gone.png"), BytesAndPath(None, "a.png"), PyDict(EmptyDict),
     PyBytes("pngA"), PyBytes("junk"),
     B64("pngA"), B64("junk"), BadB64}

ThumbValues == {DictOf(B64("pngB")), DictOf(BadB64), BadB64}

Row(image, thumb) == [k \in {"image", "thumb"} |-> IF k = "image" THEN image ELSE thumb]

FirstRows == {Row(i, th) : i \in ImageValues, th \in ThumbValues}
MoreRows == {Row(DictOf(B64("pngA")), DictOf(B64("pngB"))), Row(PyBytes("junk"), DictOf(BadB64)),
             Row(BadB64, BadB64)}

RowSeqs == {<<>>} \cup {<<r>> \o rest : r \in FirstRows, rest \in SeqsUpTo(MoreRows, MaxRows - 1)}

\* the schema before the run: every column of an inferred, not yet canonical, type
Inferred == [k \in {"image", "thumb"} |-> "inferred"]

ImageConfigs ==
    {[image_fields |-> fs, target_format |-> tf, skip_on_error |-> sk] :
        fs \in {<<"image">>, <<"image", "thumb">>, <<"thumb", "image">>, <<"absent", "image">>},
        tf \in {"hf_image", "bytes"}, sk \in BOOLEAN}

NoConv == [before |-> EmptyDict, after |-> EmptyDict, raised |-> FALSE, at |-> "",
           fields |-> <<>>]

ImgIdle ==
    /\ iself = [image_fields |-> <<"image">>, target_format |-> "hf_image", skip_on_error |-> TRUE]
    /\ dataset = [rows |-> <<>>, features |-> Inferred]
    /\ dataset0 = dataset
    /\ field_idx = 0
    /\ mapped = <<>>
    /\ ipc = "idle"
    /\ conv = NoConv
    /\ map_done = {}
    /\ not_converted = {}
    /\ workers = <<>>
    /\ overlapped = FALSE

QaIdle ==
    /\ self = DefaultConfig(TRUE, FALSE)
    /\ example = EmptyDict
    /\ example0 = EmptyDict
    /\ fault = "none"
    /\ result = Drop
    /\ caught = FALSE
    /\ explanations = <<>>
    /\ index = NoIndex
    /\ pc = "idle"

(***************************************************************************)
(* The state machine.                                                      *)
(***************************************************************************)
InitQa(configs, nq, ne, na, faults) ==
    /\ mode = "qa"
    /\ self \in configs
    /\ example \in QaExamples(self, nq, ne, na)
    /\ example0 = example
    /\ fault \in faults
    /\ result = Drop
    /\ caught = FALSE
    /\ explanations = <<>>
    /\ index = NoIndex
    /\ pc = "call"
    /\ ImgIdle

\* one invocation of process_example on the record
ProcessExample ==
    /\ mode = "qa"
    /\ pc = "call"
    /\ LET out == process_example(self, example, fault)
       IN /\ result' = out.result
          /\ example' = out.example
          /\ caught' = out.caught
    /\ pc' = "done"
    /\ UNCHANGED <<mode, self, example0, fault, explanations, index, imgvars, wvars>>

InitSelect ==
    /\ mode = "select"
    /\ self = DefaultConfig(TRUE, FALSE)
    /\ example = EmptyDict
    /\ example0 = EmptyDict
    /\ fault = "none"
    /\ result = Drop
    /\ caught = FALSE
    /\ explanations \in SeqsUpTo(SelItems, MaxSel)
    /\ index = NoIndex
    /\ pc = "call"
    /\ ImgIdle

\* one call of _select_longest_index
SelectLongestIndex ==
    /\ mode = "select"
    /\ pc = "call"
    /\ index' = select_longest_index(explanations)
    /\ pc' = "done"
    /\ UNCHANGED <<mode, self, example, example0, fault, result, caught, explanations, imgvars, wvars>>

Init == InitQa(DefaultConfigs, MaxQ, MaxE, MaxA, {"none"})

Next == ProcessExample

Spec == Init /\ [][Next]_vars

SpecSelect == InitSelect /\ [][SelectLongestIndex]_vars

SpecFault ==
    InitQa(DefaultConfigs, MaxFaultLen, MaxFaultLen, MaxFaultLen, FaultPoints \cup {"none"})
    /\ [][ProcessExample]_vars

SpecNames ==
    InitQa(NamedConfigs, MaxNameLen, MaxNameLen, MaxNameLen, {"none"})
    /\ [][ProcessExample]_vars

InitImage ==
    /\ mode = "image"
    /\ QaIdle
    /\ iself \in ImageConfigs
    /\ \E rows \in RowSeqs : dataset = [rows |-> rows, features |-> Inferred]
    /\ dataset0 = dataset
    /\ field_idx = 0
    /\ mapped = <<>>
    /\ ipc = "start"
    /\ conv = NoConv
    /\ map_done = {}
    /\ not_converted = {}
    /\ workers = <<>>
    /\ overlapped = FALSE

current_field == iself.image_fields[field_idx]

\* a slip: the column is cast without the map
after_column_check_cast == "cast"

\* where control goes once the field is known to be a column: the map comes first
after_column_check == "map"

\* apply_to_dataset up to the choice of the branch
ApplyStart ==
    /\ mode = "image" /\ ipc = "start"
    /\ field_idx' = 1
    /\ ipc' = IF iself.target_format = "hf_image" THEN "field" ELSE "bytes"
    /\ UNCHANGED <<mode, qavars, wvars, iself, dataset, dataset0, mapped, conv, map_done, not_converted>>

\* for field in self.image_fields: the end of the loop, a field that is no column
\* (continue), or the start of the field's map
NextField ==
    /\ mode = "image" /\ ipc = "field"
    /\ \/ /\ field_idx > Len(iself.image_fields)
          /\ ipc' = "done"
          /\ UNCHANGED field_idx
       \/ /\ field_idx <= Len(iself.image_fields)
          /\ current_field \notin DOMAIN dataset.features
          /\ field_idx' = field_idx + 1
          /\ UNCHANGED ipc
       \/ /\ field_idx <= Len(iself.image_fields)
          /\ current_field \in DOMAIN dataset.features
          /\ ipc' = after_column_check
          /\ UNCHANGED field_idx
    /\ mapped' = <<>>
    /\ UNCHANGED <<mode, qavars, wvars, iself, dataset, dataset0, conv, map_done, not_converted>>

\* dataset.map(lambda ex: self._convert_to_pil(ex, field)) on the next row; an
\* exception leaves the map and reaches the except clause of apply_to_dataset
MapRow ==
    /\ mode = "image" /\ ipc = "map"
    /\ Len(mapped) < Len(dataset.rows)
    /\ LET row == dataset.rows[Len(mapped) + 1]
           out == convert_to_pil(iself, row, current_field)
       IN /\ conv' = [before |-> row, after |-> out.ex, raised |-> out.raised,
                      at |-> out.at, fields |-> <<current_field>>]
          /\ IF out.raised
             THEN IF iself.skip_on_error
                  THEN /\ ipc' = "field"
                       /\ field_idx' = field_idx + 1
                       /\ not_converted' = not_converted \cup {current_field}
                       /\ UNCHANGED mapped
                  ELSE /\ ipc' = "raised"
                       /\ UNCHANGED <<field_idx, mapped, not_converted>>
             ELSE /\ mapped' = Append(mapped, out.ex)
                  /\ UNCHANGED <<ipc, field_idx, not_converted>>
    /\ UNCHANGED <<mode, qavars, wvars, iself, dataset, dataset0, map_done>>

\* dataset = dataset.map(...): the map has run over every row
MapReturn ==
    /\ mode = "image" /\ ipc = "map"
    /\ Len(mapped) = Len(dataset.rows)
    /\ dataset' = [dataset EXCEPT !.rows = mapped]
    /\ map_done' = map_done \cup {current_field}
    /\ ipc' = "cast"
    /\ UNCHANGED <<mode, qavars, wvars, iself, dataset0, field_idx, mapped, conv, not_converted>>

\* new_features[field] = Image(); dataset = dataset.cast(new_features)
Cast ==
    /\ mode = "image" /\ ipc = "cast"
    /\ dataset' = [dataset EXCEPT !.features[current_field] = "Image"]
    /\ ipc' = "field"
    /\ field_idx' = field_idx + 1
    /\ UNCHANGED <<mode, qavars, wvars, iself, dataset0, mapped, conv, map_done, not_converted>>

\* except Exception as e: ... if not self.skip_on_error: raise
\* (the map or the cast of the datasets library raises)
LibraryFails ==
    /\ mode = "image" /\ ipc \in {"map", "cast"}
    /\ IF iself.skip_on_error
       THEN /\ ipc' = "field"
            /\ field_idx' = field_idx + 1
            /\ not_converted' = not_converted \cup {current_field}
       ELSE /\ ipc' = "raised"
            /\ UNCHANGED <<field_idx, not_converted>>
    /\ UNCHANGED <<mode, qavars, wvars, iself, dataset, dataset0, mapped, conv, map_done>>

\* dataset.map(self._convert_to_bytes) on the next row; nothing catches an exception
BytesMapRow ==
    /\ mode = "image" /\ ipc = "bytes"
    /\ Len(mapped) < Len(dataset.rows)
    /\ LET row == dataset.rows[Len(mapped) + 1]
           out == convert_to_bytes(iself, row)
       IN /\ conv' = [before |-> row, after |-> out.ex, raised |-> out.raised,
                      at |-> out.at, fields |-> iself.image_fields]
          /\ IF out.raised
             THEN /\ ipc' = "raised"
                  /\ UNCHANGED mapped
             ELSE /\ mapped' = Append(mapped, out.ex)
                  /\ UNCHANGED ipc
    /\ UNCHANGED <<mode, qavars, wvars, iself, dataset, dataset0, field_idx, map_done, not_converted>>

\* dataset = dataset.map(self._convert_to_bytes): the map has run over every row
BytesMapReturn ==
    /\ mode = "image" /\ ipc = "bytes"
    /\ Len(mapped) = Len(dataset.rows)
    /\ dataset' = [dataset EXCEPT !.rows = mapped]
    /\ ipc' = "done"
    /\ UNCHANGED <<mode, qavars, wvars, iself, dataset0, field_idx, mapped, conv, map_done, not_converted>>

NextImage ==
    \/ ApplyStart
    \/ NextField
    \/ MapRow
    \/ MapReturn
    \/ Cast
    \/ LibraryFails
    \/ BytesMapRow
    \/ BytesMapReturn

SpecImage == InitImage /\ [][NextImage]_vars



(***************************************************************************)
(* process_example under concurrent invocation.  Each invocation has its    *)
(* own record and its own local variables; self (the selector's attributes) *)
(* and iself (the converter's) are the only state the invocations share.   *)
(* Every step reads the attributes it uses at the time it is taken.        *)
(***************************************************************************)
\* a slip: the invocation leaves a note on the processor
qa_attributes_flagged(s) == [s EXCEPT !.keep_unmapped = FALSE]

\* the selector's attributes after a step of process_example: no statement of it
\* assigns to self
qa_attributes_after(s) == s

\* the converter's attributes after a step of process_example, _convert_to_pil or
\* _convert_to_bytes: no statement of them assigns to self
image_attributes_after(s) == s

NoLocals == [questions |-> <<>>, expl |-> <<>>, answers |-> <<>>, question |-> <<>>,
             explanation |-> <<>>, answer |-> <<>>, result |-> EmptyDict, i |-> 1]

Invocation(proc, rec) ==
    [proc |-> proc, rec0 |-> rec, rec |-> rec, wpc |-> "read", loc |-> NoLocals,
     res |-> Drop, raised |-> FALSE]

QaContainer(q, e, a) ==
    [k \in {"question", "explanation", "answer"} |->
        CASE k = "question" -> q [] k = "explanation" -> e [] k = "answer" -> a]

WorkerQaRecords ==
    {Put(b, "qa_pairs", PyDict(c)) :
        b \in {[k \in {"id"} |-> PyInt(1)]},
        c \in {QaContainer(PyList(<<PyStr(<<" ">>), PyStr(<<"q", " ">>)>>),
                           PyList(<<None, PyStr(<<"a", "b">>)>>),
                           PyList(<<PyStr(<<>>), PyInt(7)>>)),
               QaContainer(PyStr(<<"q">>), PyList(<<PyStr(<<" ">>)>>), PyInt(7)),
               QaContainer(PyList(<<PyStr(<<"q">>)>>), PyList(<<None, None>>), PyInt(7))}}

WorkerImageRecords ==
    {Row(DictOf(B64("pngA")), DictOf(B64("pngB"))),
     Row(DictOf(BadB64), DictOf(B64("pngB"))),
     Row(BadB64, Pil("B"))}

Invocations ==
    {Invocation("qa", r) : r \in WorkerQaRecords}
    \cup {Invocation("image", r) : r \in WorkerImageRecords}

InitWorkers ==
    /\ mode = "workers"
    /\ self \in DefaultConfigs
    /\ example = EmptyDict
    /\ example0 = EmptyDict
    /\ fault = "none"
    /\ result = Drop
    /\ caught = FALSE
    /\ explanations = <<>>
    /\ index = NoIndex
    /\ pc = "idle"
    /\ iself \in {c \in ImageConfigs : c.image_fields = <<"image", "thumb">>}
    /\ dataset = [rows |-> <<>>, features |-> Inferred]
    /\ dataset0 = dataset
    /\ field_idx = 0
    /\ mapped = <<>>
    /\ ipc = "idle"
    /\ conv = NoConv
    /\ map_done = {}
    /\ not_converted = {}
    /\ workers \in [1..NWorkers -> Invocations]
    /\ overlapped = FALSE

UnderWay(w) == workers[w].wpc \notin {"read", "done", "raised"} \/ workers[w].loc.i > 1

\* worker w takes a step that leaves it as next
Step(w, next) ==
    /\ workers' = [workers EXCEPT ![w] = next]
    /\ overlapped' = (overlapped \/ \E v \in DOMAIN workers : v # w /\ UnderWay(v))
    /\ UNCHANGED <<mode, example, example0, fault, result, caught, explanations, index, pc,
                   dataset, dataset0, field_idx, mapped, ipc, conv, map_done, not_converted>>

Finished(me, res) == [me EXCEPT !.wpc = "done", !.res = res]

\* selector, lines 30-51: the container, the three sequences, the validity checks
QaRead(w) ==
    LET me == workers[w]
        source == get_source_container(self, me.rec)
        questions == as_list(Get(source, self.question_field))
        expl == as_list(Get(source, self.explanation_field))
        answers == as_list(Get(source, self.answer_field))
    IN /\ mode = "workers" /\ me.proc = "qa" /\ me.wpc = "read"
       /\ IF questions = <<>> \/ expl = <<>> \/ answers = <<>>
             \/ ~have_matching_lengths(questions, expl, answers)
          THEN Step(w, Finished(me, Drop))
          ELSE Step(w, [me EXCEPT !.wpc = "select", !.loc.questions = questions,
                                  !.loc.expl = expl, !.loc.answers = answers])
       /\ self' = qa_attributes_after(self)
       /\ UNCHANGED iself

\* selector, lines 53-69: the selection, the three stripped texts
QaSelect(w) ==
    LET me == workers[w]
        idx == select_longest_index(me.loc.expl)
        question == Strip(Str(me.loc.questions[idx + 1]))
        explanation == Strip(Str(me.loc.expl[idx + 1]))
        answer == Strip(Str(me.loc.answers[idx + 1]))
    IN /\ mode = "workers" /\ me.proc = "qa" /\ me.wpc = "select"
       /\ IF idx = NoIndex THEN Step(w, Finished(me, Drop))
          ELSE IF question = <<>> \/ explanation = <<>> \/ answer = <<>>
               THEN Step(w, Finished(me, Drop))
               ELSE Step(w, [me EXCEPT !.wpc = "build", !.loc.question = question,
                                       !.loc.explanation = explanation,
                                       !.loc.answer = answer])
       /\ self' = qa_attributes_after(self)
       /\ UNCHANGED iself

\* selector, lines 71-73: the result and its two fields
QaBuild(w) ==
    LET me == workers[w]
        fresh == new_result(self, me.rec)
        built == build_result(self, fresh.rec, me.loc.question, me.loc.explanation,
                              me.loc.answer)
    IN /\ mode = "workers" /\ me.proc = "qa" /\ me.wpc = "build"
       /\ Step(w, [me EXCEPT !.wpc = "remove", !.loc.result = built,
                             !.rec = IF fresh.alias THEN built ELSE me.rec])
       /\ self' = qa_attributes_after(self)
       /\ UNCHANGED iself

\* selector, lines 75-82: the removal of the source fields, the return
QaRemove(w) ==
    LET me == workers[w]
    IN /\ mode = "workers" /\ me.proc = "qa" /\ me.wpc = "remove"
       /\ Step(w, Finished(me, Keep(remove_source(self, me.loc.result))))
       /\ self' = qa_attributes_after(self)
       /\ UNCHANGED iself

\* converter, process_example: the conversion of the next configured field, or the
\* return once every field was handled
ImageConvert(w) ==
    LET me == workers[w]
        i == me.loc.i
        out == IF iself.target_format = "hf_image"
               THEN convert_to_pil(iself, me.rec, iself.image_fields[i])
               ELSE convert_field_to_bytes(iself, me.rec, iself.image_fields[i])
    IN /\ mode = "workers" /\ me.proc = "image" /\ me.wpc = "read"
       /\ IF i > Len(iself.image_fields) THEN Step(w, Finished(me, Keep(me.rec)))
          ELSE IF out.raised THEN Step(w, [me EXCEPT !.wpc = "raised", !.raised = TRUE])
               ELSE Step(w, [me EXCEPT !.rec = out.ex, !.loc.i = i + 1])
       /\ iself' = image_attributes_after(iself)
       /\ UNCHANGED self

NextWorkers ==
    \/ \E w \in DOMAIN workers : QaRead(w)
    \/ \E w \in DOMAIN workers : QaSelect(w)
    \/ \E w \in DOMAIN workers : QaBuild(w)
    \/ \E w \in DOMAIN workers : QaRemove(w)
    \/ \E w \in DOMAIN workers : ImageConvert(w)

SpecWorkers == InitWorkers /\ [][NextWorkers]_vars

(***************************************************************************)
(* What the claims speak of, stated without the processor's own helpers.   *)
(***************************************************************************)
\* the qa container of a record: the qa-pairs field when it is a mapping
ClaimContainer(s, ex) ==
    IF s.qa_pairs_field \in DOMAIN ex /\ ex[s.qa_pairs_field].t = "dict"
    THEN ex[s.qa_pairs_field].v ELSE EmptyDict

\* a sub-field as a sequence: a list as it is, nothing as the empty sequence,
\* a scalar as a one-element sequence
ClaimSeq(c, field) ==
    IF field \notin DOMAIN c THEN <<>>
    ELSE IF c[field].t = "none" THEN <<>>
    ELSE IF c[field].t = "list" THEN c[field].v
    ELSE <<c[field]>>

ClaimQ == ClaimSeq(ClaimContainer(self, example0), self.question_field)
ClaimE == ClaimSeq(ClaimContainer(self, example0), self.explanation_field)
ClaimA == ClaimSeq(ClaimContainer(self, example0), self.answer_field)

ClaimValid ==
    /\ ClaimQ # <<>> /\ ClaimE # <<>> /\ ClaimA # <<>>
    /\ Len(ClaimQ) = Len(ClaimE) /\ Len(ClaimE) = Len(ClaimA)

\* the 0-based positions of the non-null entries, and the length of the text of one
NonNull(expl) == {i \in 0..(Len(expl) - 1) : expl[i + 1].t # "none"}
TextLen(expl, i) == Len(Str(expl[i + 1]))

\* i is the first position of a non-null entry of greatest text length
IsFirstLongest(expl, i) ==
    /\ i \in NonNull(expl)
    /\ \A j \in NonNull(expl) : TextLen(expl, i) >= TextLen(expl, j)
    /\ \A j \in NonNull(expl) : j < i => TextLen(expl, j) < TextLen(expl, i)

Template(explanation, answer) ==
    explanation
    \o <<"\n", "\n">> \o <<"T", "h", "e", " ", "a", "n", "s", "w", "e", "r", " ", "i", "s", " ">>
    \o <<"\\", "b", "o", "x", "e", "d", "{">> \o answer \o <<"}", ".">>

Emitted == pc = "done" /\ result.kind = "record"

\* C1: _select_longest_index returns the smallest index of a non-null entry whose
\* text is at least as long as that of every other non-null entry, and returns no
\* index exactly when every entry is null or the sequence is empty.
C1_SelectFirstLongest ==
    (mode = "select" /\ pc = "done") =>
        /\ (index = NoIndex) <=> (NonNull(explanations) = {})
        /\ (index # NoIndex) => IsFirstLongest(explanations, index)

\* a tie between two entries of length 1 behind a null entry: the first of the two wins
C1_Witness ==
    /\ mode = "select" /\ pc = "done"
    /\ explanations = <<None, PyStr(<<"a">>), PyStr(<<" ">>)>>
    /\ index = 1

\* C2: a record whose qa-pairs field is missing or no mapping, or one of whose three
\* sequences is empty, or whose three sequences differ in length, is dropped,
\* whatever keep_unmapped and remove_source_fields are.
C2_InvalidDropped ==
    (mode = "qa" /\ pc = "done" /\ ~ClaimValid) => result = Drop

\* 2 questions and 3 explanations, keep_unmapped set: dropped, not passed through
C2_Witness ==
    /\ mode = "qa" /\ pc = "done" /\ self.keep_unmapped
    /\ Len(ClaimQ) = 2 /\ Len(ClaimE) = 3 /\ Len(ClaimA) = 3
    /\ result = Drop

\* C3: an emitted record's problem field is the stripped question at the selected
\* index and its solution field is the template filled with the stripped explanation
\* and answer at that index; nothing is emitted when one of the three is empty after
\* stripping.
C3_OutputContent ==
    (mode = "qa" /\ pc = "done" /\ ClaimValid) =>
        /\ Emitted =>
            \E i \in NonNull(ClaimE) :
                /\ IsFirstLongest(ClaimE, i)
                /\ self.problem_field \in DOMAIN result.rec
                /\ self.solution_field \in DOMAIN result.rec
                /\ result.rec[self.problem_field] = PyStr(Strip(Str(ClaimQ[i + 1])))
                /\ result.rec[self.solution_field] =
                       PyStr(Template(Strip(Str(ClaimE[i + 1])), Strip(Str(ClaimA[i + 1]))))
        /\ \A i \in NonNull(ClaimE) :
               (/\ IsFirstLongest(ClaimE, i)
                /\ \/ Strip(Str(ClaimQ[i + 1])) = <<>>
                   \/ Strip(Str(ClaimE[i + 1])) = <<>>
                   \/ Strip(Str(ClaimA[i + 1])) = <<>>)
               => result = Drop

\* the second of two entries selected, its question stripped, its answer coerced
C3_Witness ==
    /\ Emitted /\ mode = "qa"
    /\ IsFirstLongest(ClaimE, 1)
    /\ ClaimQ[2] = PyStr(<<"q", " ">>)
    /\ result.rec[self.problem_field] = PyStr(<<"q">>)
    /\ ClaimA[2] = PyInt(7)

\* C4: when an unexpected failure occurs in the try body, process_example returns the
\* original record, fields and values as they were, if keep_unmapped, and drops the
\* record otherwise.
C4_ErrorContained ==
    (mode = "qa" /\ pc = "done" /\ caught) =>
        /\ example = example0
        /\ result = IF self.keep_unmapped THEN Keep(example0) ELSE Drop

\* a failure while the source fields are removed, after the two fields were written
C4_Witness ==
    /\ mode = "qa" /\ pc = "done" /\ caught
    /\ fault = "remove" /\ self.keep_unmapped
    /\ result = Keep(example0)

\* the fields of the output that are neither the problem nor the solution field
FurtherFields == (DOMAIN result.rec) \ {self.problem_field, self.solution_field}

C5_Shape ==
    /\ self.problem_field \in DOMAIN result.rec
    /\ self.solution_field \in DOMAIN result.rec
    /\ self.qa_pairs_field \notin DOMAIN result.rec
    /\ \A f \in FurtherFields :
           /\ f \in DOMAIN example0
           /\ f \notin DOMAIN ClaimContainer(self, example0)

C5_Case ==
    /\ mode = "qa" /\ Emitted
    /\ ~self.keep_unmapped /\ self.remove_source_fields
    /\ self.qa_pairs_field \notin {self.problem_field, self.solution_field}

\* C5 as stated: with keep_unmapped off and remove_source_fields on, and the problem
\* and solution field names distinct from the qa-pairs field name, an emitted record
\* has the problem and the solution field, has neither the qa-pairs field nor a field
\* of the qa container, and any further field is one of the input outside the container.
C5_Original == C5_Case => C5_Shape

\* C5 as amended: the same, for problem and solution field names that are also
\* distinct from the question, explanation and answer field names whenever the
\* qa-pairs field name is empty.
C5_OnlyNewFields ==
    (/\ C5_Case
     /\ (self.qa_pairs_field = "" =>
            {self.problem_field, self.solution_field}
            \cap {self.question_field, self.explanation_field, self.answer_field} = {}))
    => C5_Shape

\* an emission under an empty qa-pairs field name
C5_Witness ==
    /\ C5_Case /\ self.qa_pairs_field = "" /\ self.problem_field = "out"
    /\ DOMAIN result.rec = {"out", "solution"}

\* C6: with keep_unmapped on and remove_source_fields off an emitted record has the
\* input's fields plus the problem and solution fields, every other field with the
\* input's value, and the input record is as it was; with keep_unmapped off an
\* emitted record has only the two new fields.
C6_Frame ==
    (mode = "qa" /\ pc = "done") =>
        /\ (Emitted /\ self.keep_unmapped /\ ~self.remove_source_fields) =>
               /\ DOMAIN result.rec =
                      (DOMAIN example0) \cup {self.problem_field, self.solution_field}
               /\ \A f \in FurtherFields : result.rec[f] = example0[f]
        /\ (self.keep_unmapped /\ ~self.remove_source_fields) => example = example0
        /\ (Emitted /\ ~self.keep_unmapped) =>
               DOMAIN result.rec = {self.problem_field, self.solution_field}

\* an emission that overwrites a problem field the input already had
C6_Witness ==
    /\ Emitted /\ mode = "qa" /\ self.keep_unmapped /\ ~self.remove_source_fields
    /\ "problem" \in DOMAIN example0
    /\ result.rec["problem"] # example0["problem"]
    /\ result.rec["qa_pairs"] = example0["qa_pairs"]

(***************************************************************************)
(* The image claims.                                                       *)
(***************************************************************************)
Decoded == iself.target_format = "hf_image"

Configured == {iself.image_fields[i] : i \in 1..Len(iself.image_fields)}
Columns == DOMAIN dataset0.features

\* the fields of the last conversion that the record has, in configured order
ConvFields == {conv.fields[i] : i \in 1..Len(conv.fields)} \cap DOMAIN conv.before

Position(f) == CHOOSE i \in 1..Len(conv.fields) : conv.fields[i] = f

\* a structured value with embedded bytes or a path reference, or raw bytes
IsStructured(v) == v.t \in {"dict", "bytes"}

HasBytes(v) == v.t = "dict" /\ "bytes" \in DOMAIN v.v
HasPath(v) == v.t = "dict" /\ "bytes" \notin DOMAIN v.v /\ "path" \in DOMAIN v.v
                  /\ v.v["path"] # PyStr(<<>>)

\* the decoding of a structured or raw-bytes value fails
DecodeFails(v) ==
    \/ HasBytes(v) /\ v.v["bytes"].t = "str"
         /\ (~b64decode(v.v["bytes"]).ok \/ ~pil_open(b64decode(v.v["bytes"]).val).ok)
    \/ HasBytes(v) /\ v.v["bytes"].t = "bytes" /\ ~pil_open(v.v["bytes"]).ok
    \/ HasPath(v) /\ ~pil_open_path(v.v["path"]).ok
    \/ v.t = "bytes" /\ ~pil_open(v).ok

\* the encoding of a structured or raw-bytes value fails
EncodeFails(v) == HasBytes(v) /\ v.v["bytes"].t = "str" /\ ~b64decode(v.v["bytes"]).ok

StructuredFails(v) == IsStructured(v) /\ IF Decoded THEN DecodeFails(v) ELSE EncodeFails(v)

\* the decoding of a top-level string fails
StringFails(v) ==
    /\ v.t = "str"
    /\ \/ ~b64decode(v).ok
       \/ Decoded /\ ~pil_open(b64decode(v).val).ok

\* the fields of the last conversion whose structured value fails to convert
FailingFields == {f \in ConvFields : StructuredFails(conv.before[f])}

FirstFailing == CHOOSE f \in FailingFields : \A g \in FailingFields : Position(f) <= Position(g)

\* what converting field g alone makes of the record
Alone(g) ==
    IF Decoded THEN convert_to_pil(iself, conv.before, g).ex[g]
    ELSE convert_field_to_bytes(iself, conv.before, g).ex[g]

\* C7: when the conversion of a structured or raw-bytes value fails, then without
\* skip_on_error the exception leaves the per-record conversion and apply_to_dataset,
\* and with skip_on_error nothing is raised, the failing field keeps its value and
\* the other configured fields of the record are converted all the same.
C7_StructuredGoverned ==
    /\ (mode = "image" /\ conv # NoConv /\ FailingFields # {}) =>
           IF iself.skip_on_error
           THEN /\ ~conv.raised
                /\ ipc # "raised"
                /\ \A f \in FailingFields : conv.after[f] = conv.before[f]
                /\ \A g \in ConvFields \ FailingFields : conv.after[g] = Alone(g)
           ELSE /\ conv.raised
                /\ conv.at = FirstFailing
                /\ ipc = "raised"
    /\ (mode = "image" /\ Decoded /\ iself.skip_on_error /\ ipc = "done") =>
           \A g \in Configured \cap Columns :
               /\ g \in map_done \cup not_converted
               /\ g \in map_done =>
                      \A r \in 1..Len(dataset.rows) :
                          dataset.rows[r][g] = convert_to_pil(iself, dataset0.rows[r], g).ex[g]

\* target bytes, skip_on_error: the image field keeps its corrupted base64 payload,
\* the thumbnail behind it is decoded
C7_Witness ==
    /\ mode = "image" /\ ~Decoded /\ iself.skip_on_error
    /\ conv.fields = <<"image", "thumb">>
    /\ conv.before["image"] = DictOf(BadB64)
    /\ conv.after["image"] = DictOf(BadB64)
    /\ conv.before["thumb"] = DictOf(B64("pngB"))
    /\ conv.after["thumb"] = PyBytes("pngB")

\* C8: when the decoding of a top-level string fails, under either target and either
\* value of skip_on_error, no exception leaves the conversion of that field and
\* the field keeps its value.
C8_StringSwallowed ==
    (mode = "image" /\ conv # NoConv) =>
        \A f \in ConvFields :
            StringFails(conv.before[f]) =>
                /\ conv.at # f
                /\ conv.after[f] = conv.before[f]
                /\ (FailingFields = {} => ~conv.raised)

\* skip_on_error off, target hf_image: base64 text of bytes that are no image
C8_Witness ==
    /\ mode = "image" /\ Decoded /\ ~iself.skip_on_error
    /\ conv.fields = <<"image">>
    /\ conv.before["image"] = B64("junk")
    /\ conv.after = conv.before
    /\ ~conv.raised
    /\ ipc = "done"

\* the configured fields at the first n positions
FieldsUpTo(n) == {iself.image_fields[i] : i \in (1..n) \cap DOMAIN iself.image_fields}

\* the configured fields the loop has left behind
Passed == FieldsUpTo(field_idx - 1)

\* C10: with target hf_image a field's schema is retyped only after the map ran over
\* every record for that field, the fields being taken in configured order; a
\* configured field that is no column is passed over without error; and with
\* skip_on_error, when the map or the cast of a field fails, that field is not
\* retyped, the loop goes on to the next field, and the dataset returned has as many
\* records as the input.
C10_RetypeAfterMap ==
    (mode = "image" /\ Decoded /\ ipc # "start") =>
        /\ \A f \in Columns : dataset.features[f] = "Image" => f \in map_done
        /\ map_done \cup not_converted
               \subseteq FieldsUpTo(field_idx) \cap Columns
        /\ \A f \in Passed \cap Columns :
               dataset.features[f] = "Image" \/ f \in not_converted
        /\ ipc = "raised" =>
               /\ field_idx \in DOMAIN iself.image_fields
               /\ current_field \in Columns
               /\ ~iself.skip_on_error
        /\ \A f \in not_converted : dataset.features[f] = dataset0.features[f]
        /\ ipc = "done" =>
               /\ field_idx = Len(iself.image_fields) + 1
               /\ Len(dataset.rows) = Len(dataset0.rows)

\* the thumbnail's cast failed and was skipped, the image behind it was retyped
C10_Witness ==
    /\ mode = "image" /\ Decoded /\ ipc = "done" /\ iself.skip_on_error
    /\ iself.image_fields = <<"thumb", "image">>
    /\ not_converted = {"thumb"}
    /\ "thumb" \in map_done
    /\ dataset.features["image"] = "Image"
    /\ Len(dataset.rows) = 2

(***************************************************************************)
(* Reentrancy.                                                             *)
(***************************************************************************)
\* what one invocation on the record alone gives
AloneResult(me) ==
    IF me.proc = "qa"
    THEN [res |-> process_example(self, me.rec0, "none").result, raised |-> FALSE]
    ELSE LET out == image_process_example(iself, me.rec0)
         IN [res |-> IF out.raised THEN Drop ELSE Keep(out.ex), raised |-> out.raised]

WorkersAgree ==
    mode = "workers" =>
        \A w \in DOMAIN workers :
            workers[w].wpc \in {"done", "raised"} =>
                /\ [res |-> workers[w].res, raised |-> workers[w].raised]
                       = AloneResult(workers[w])
                /\ \A v \in DOMAIN workers :
                       (/\ workers[v].wpc \in {"done", "raised"}
                        /\ workers[v].proc = workers[w].proc
                        /\ workers[v].rec0 = workers[w].rec0)
                       => (workers[v].res = workers[w].res
                           /\ workers[v].raised = workers[w].raised)

\* C9: no step of process_example changes an attribute of either processor, and so,
\* however the invocations on distinct records interleave, each ends with what an
\* invocation on its record alone gives, and invocations on equal records end alike.
C9_Reentrant == [][self' = self /\ iself' = iself]_vars /\ []WorkersAgree

\* a selector invocation and a converter invocation, both done, neither one run
\* from start to end while the other stood still
C9_Witness ==
    /\ mode = "workers" /\ overlapped
    /\ workers[1].proc = "qa" /\ workers[1].wpc = "done" /\ workers[1].res.kind = "record"
    /\ workers[2].proc = "image" /\ workers[2].wpc = "done"
    /\ workers[2].res.rec["thumb"] # workers[2].rec0["thumb"]

====
